---- MODULE Spec2Model ----
(***************************************************************************)
(* Model of lazylog's RotatingWriter (src/src/writer.rs) and of the        *)
(* RotationTrigger / RotationPeriod types (src/src/rotation.rs).           *)
(*                                                                         *)
(* A path is the sequence of the components appended to the base path by   *)
(* format!("{}.{}", path, component); a component is a tuple of integers:  *)
(* <<n>> for the backup number n, <<y, m, d>> for a day label, and so on.  *)
(* A file system is a function from the paths that exist to their content, *)
(* a sequence of bytes.  An Option is a sequence of length at most one.    *)
(***************************************************************************)
EXTENDS Integers, Sequences, FiniteSets, TLC

\* Bounds of the model.
MaxNow == 1          \* the clock runs over the hours 0..MaxNow after StartHour
MaxAppends == 2      \* calls of write
MaxBufLen == 2       \* length of one buffer
MaxConstructs == 1   \* calls of RotatingWriter::new on the same directory

Threads == {1, 2}

VARIABLES
    fs,          \* the directory: path -> content
    trigger,     \* RotatingWriter.trigger
    alive,       \* a RotatingWriter exists
    state,       \* RotatingWriter.state: Option<FileState>
    lock,        \* holder of the Mutex around state, 0 when free
    now,         \* the clock, in hours after StartHour
    pc,          \* position of each caller thread
    cur,         \* the call each thread is in
    synced,      \* the last operation on the handle was sync_all
    appends,     \* number of write calls started
    constructs,  \* number of RotatingWriter::new calls
    initFs,      \* history: the directory before the first construction
    log,         \* history: the completed write calls, in order of their write
    callers,     \* history: the threads whose write calls have completed
    opened,      \* history: how the handle was opened and what its file held
    expect,      \* history: bytes written through the handle since it was opened
    rotations,   \* history: number of rotate_by_size runs
    ret,         \* history: what the last write or flush call returned
    dirs,        \* the directories above the base path
    attempt      \* history: the last write call that returned an error

vars == <<fs, trigger, alive, state, lock, now, pc, cur, synced, appends,
          constructs, initFs, log, callers, opened, expect, rotations, ret,
          dirs, attempt>>

-----------------------------------------------------------------------------
(* Calendar: RotationPeriod::get_suffix formats the local time.  The UTC   *)
(* offset is taken as constant over the hours the clock runs through.      *)

\* Hour 0 of the model clock is 2026-05-31T23 (a Sunday): one hour later the
\* hour, the day, the week and the month all change.
StartHour == 150 * 24 + 23

\* day of the year (from 0) of the first day of each month of 2026
MonthStart == <<0, 31, 59, 90, 120, 151, 181, 212, 243, 273, 304, 334, 365>>

MonthOf(d) == CHOOSE m \in 1..12 : MonthStart[m] <= d /\ d < MonthStart[m + 1]

DayIn(d, m) == <<m, d - MonthStart[m] + 1>>

\* day index 0 is 2026-01-01; the days before it are in December 2025
DateOf(day) ==
    IF day < 0 THEN <<2025, 12, 32 + day>>
    ELSE <<2026>> \o DayIn(day, MonthOf(day))

\* 2026-01-01 is a Thursday
number_days_from_monday(day) == (day + 3) % 7

\* Weekly formats week_start, the Monday of the week: now - days from Monday
DayFor(period, day) ==
    IF period = "Weekly" THEN day - number_days_from_monday(day) ELSE day

\* the format descriptions: [year]-[month]-[day]T[hour], [year]-[month]-[day]
\* and [year]-[month]
LabelOfDated(period, date, hour) ==
    CASE period = "Never"   -> date
      [] period = "Hourly"  -> date \o <<hour>>
      [] period = "Daily"   -> date
      [] period = "Weekly"  -> date
      [] period = "Monthly" -> SubSeq(date, 1, 2)

LabelOf(period, date, hour) ==
    CASE period = "Never"   -> <<>>
      [] period = "Hourly"  -> date \o <<hour>>
      [] period = "Daily"   -> date
      [] period = "Weekly"  -> date
      [] period = "Monthly" -> SubSeq(date, 1, 2)

FormatHour(period, h) ==
    LabelOf(period, DateOf(DayFor(period, h \div 24)), h % 24)

get_suffix(period, t) == FormatHour(period, StartHour + t)

-----------------------------------------------------------------------------
(* RotationTrigger *)

Never == [kind |-> "Never", period |-> "Never", max_size |-> 0, max_files |-> 0]

time(period) ==
    [kind |-> "Time", period |-> period, max_size |-> 0, max_files |-> 0]

size(max_size, max_files) ==
    [kind |-> "Size", period |-> "Never", max_size |-> max_size,
     max_files |-> max_files]

both(period, max_size, max_files) ==
    [kind |-> "Both", period |-> period, max_size |-> max_size,
     max_files |-> max_files]

max_files(trig) ==
    IF trig.kind \in {"Size", "Both"} THEN <<trig.max_files>> ELSE <<>>

has_size_rotation_any(trig) == TRUE

has_size_rotation(trig) == trig.kind \in {"Size", "Both"}

-----------------------------------------------------------------------------
(* Paths and file operations *)

base_path == <<>>

\* format!("{}.{}", path, component)
Suffixed(path, component) == Append(path, component)

Num(n) == <<n>>

exists(f, p) == p \in DOMAIN f

remove_file(f, p) == [q \in DOMAIN f \ {p} |-> f[q]]

rename(f, from, to) ==
    [q \in (DOMAIN f \ {from}) \cup {to} |-> IF q = to THEN f[from] ELSE f[q]]

copy(f, from, to) ==
    [q \in DOMAIN f \cup {to} |-> IF q = to THEN f[from] ELSE f[q]]

\* OpenOptions::new().write(true).truncate(true).open(p), then set_len(0)
truncate(f, p) == [f EXCEPT ![p] = <<>>]

\* OpenOptions::new().create(true).append(true).open(p)
open_append(f, p) ==
    [q \in DOMAIN f \cup {p} |-> IF q \in DOMAIN f THEN f[q] ELSE <<>>]

file_write_front(content, buf) == buf \o content

\* File::write on a handle opened in append mode
file_write(content, buf) == content \o buf

-----------------------------------------------------------------------------
(* RotatingWriter: the pure part of each method.  t, or each element of    *)
(* the sequence r, is the value of the clock at one call of get_suffix.    *)

current_time_suffix(trig, t) ==
    CASE trig.kind = "Never" -> <<>>
      [] trig.kind = "Time"  -> get_suffix(trig.period, t)
      [] trig.kind = "Size"  -> <<>>
      [] trig.kind = "Both"  -> get_suffix(trig.period, t)

current_file_path(trig, t) ==
    LET suffix == current_time_suffix(trig, t)
    IN IF suffix = <<>> THEN base_path ELSE Suffixed(base_path, suffix)

needs_rotation_ge(trig, st, buf_len, t) ==
    CASE trig.kind = "Never" -> FALSE
      [] trig.kind = "Time"  ->
            IF trig.period = "Never" THEN FALSE
            ELSE get_suffix(trig.period, t) # st.time_suffix
      [] trig.kind = "Size"  -> st.size + buf_len >= trig.max_size
      [] trig.kind = "Both"  ->
            (IF trig.period # "Never"
             THEN get_suffix(trig.period, t) # st.time_suffix
             ELSE FALSE)
            \/ st.size + buf_len >= trig.max_size

needs_rotation(trig, st, buf_len, t) ==
    CASE trig.kind = "Never" -> FALSE
      [] trig.kind = "Time"  ->
            IF trig.period = "Never" THEN FALSE
            ELSE get_suffix(trig.period, t) # st.time_suffix
      [] trig.kind = "Size"  -> st.size + buf_len > trig.max_size
      [] trig.kind = "Both"  ->
            (IF trig.period # "Never"
             THEN get_suffix(trig.period, t) # st.time_suffix
             ELSE FALSE)
            \/ st.size + buf_len > trig.max_size

should_use_existing_file(trig, f) ==
    IF ~exists(f, base_path) THEN FALSE
    ELSE IF trig.kind \in {"Size", "Both"}
         THEN Len(f[base_path]) <= trig.max_size
         ELSE FALSE

\* max_files().unwrap_or(5)
DefaultMaxFiles == 5

MaxFilesOrDefault(trig) ==
    IF max_files(trig) = <<>> THEN DefaultMaxFiles ELSE max_files(trig)[1]

\* if oldest.exists() { remove_file(oldest) }
RemoveOldest(f, oldest) == IF exists(f, oldest) THEN remove_file(f, oldest) ELSE f

\* if from.exists() { rename(from, to) }
ShiftOne(f, from, to) == IF exists(f, from) THEN rename(f, from, to) ELSE f

\* for i in (1..max_files).rev(): the loop from i down to 1
RECURSIVE ShiftFiles(_, _, _)
ShiftFiles(f, current, i) ==
    IF i < 1 THEN f
    ELSE ShiftFiles(ShiftOne(f, Suffixed(current, Num(i)),
                             Suffixed(current, Num(i + 1))),
                    current, i - 1)

CopyKeep(f, current) == copy(f, current, Suffixed(current, Num(1)))

\* copy current to current.1, then truncate current
CopyTruncate(f, current) ==
    truncate(copy(f, current, Suffixed(current, Num(1))), current)

\* if current.exists() { copy; truncate }
BackupCurrent(f, current) ==
    IF exists(f, current) THEN CopyTruncate(f, current) ELSE f

RotateFilesBackupFirst(f, current, n) ==
    ShiftFiles(RemoveOldest(BackupCurrent(f, current),
                            Suffixed(current, Num(n))),
               current, n - 1)

RotateFilesKeepingOneMore(f, current, n) ==
    BackupCurrent(
        ShiftFiles(RemoveOldest(f, Suffixed(current, Num(n + 1))), current, n),
        current)

\* the three steps of rotate_by_size on the path current with max_files = n
RotateFiles(f, current, n) ==
    BackupCurrent(
        ShiftFiles(RemoveOldest(f, Suffixed(current, Num(n))), current, n - 1),
        current)

rotate_by_size_of_base(trig, f, t) ==
    RotateFiles(f, base_path, MaxFilesOrDefault(trig))

rotate_by_size(trig, f, t) ==
    RotateFiles(f, current_file_path(trig, t), MaxFilesOrDefault(trig))

\* file.metadata().len() seeds size; time_suffix is a further clock read
NewFileState(f, file_path, time_suffix) ==
    [fs    |-> f,
     state |-> [file |-> file_path, size |-> Len(f[file_path]),
                time_suffix |-> time_suffix]]

OpenFileUnlabelled(f, file_path, time_suffix) ==
    NewFileState(open_append(f, file_path), file_path, <<>>)

\* open (create, append) the file at file_path and build the FileState
OpenFile(f, file_path, time_suffix) ==
    NewFileState(open_append(f, file_path), file_path, time_suffix)

\* r[2]: clock read of rotate_by_size; r[3], r[4]: those of rotate
rotate(trig, f, r) ==
    OpenFile(IF has_size_rotation(trig) THEN rotate_by_size(trig, f, r[2])
             ELSE f,
             current_file_path(trig, r[3]), current_time_suffix(trig, r[4]))

\* what get_or_rotate leaves: the directory, the Option<FileState>, and
\* whether rotate was called
Installed(new, rotated) ==
    [fs |-> new.fs, state |-> <<new.state>>, rotated |-> rotated]

\* st is the Option<FileState> under the lock; r[1] is the clock read of
\* needs_rotation
get_or_rotate(trig, f, st, buf_len, r) ==
    IF (IF st = <<>> THEN ~should_use_existing_file(trig, f)
        ELSE needs_rotation(trig, st[1], buf_len, r[1]))
    THEN Installed(rotate(trig, f, r), TRUE)
    ELSE IF st = <<>>
    THEN Installed(OpenFile(f, current_file_path(trig, r[3]),
                            current_time_suffix(trig, r[4])), FALSE)
    ELSE [fs |-> f, state |-> st, rotated |-> FALSE]

-----------------------------------------------------------------------------
(* The same methods when a file operation returns an error.  fail names the *)
(* operation: <<"metadata">>, <<"remove_file">>, <<"rename", i>> for the    *)
(* rename of current.<i>, <<"copy", k>> for a copy that stops after k bytes *)
(* (k = -1: before current.1 is created), <<"truncate">>, <<"set_len">>,    *)
(* <<"open">>.  The result is an Option: empty when the operation is not    *)
(* reached, so that it cannot be the one that fails.                        *)

\* the shift loop interrupted at the rename of current.<stop>: the renames of
\* the higher numbers are done
RECURSIVE ShiftFilesAbove(_, _, _, _)
ShiftFilesAbove(f, current, i, stop) ==
    IF i <= stop THEN f
    ELSE ShiftFilesAbove(ShiftOne(f, Suffixed(current, Num(i)),
                                  Suffixed(current, Num(i + 1))),
                         current, i - 1, stop)

RenamesRolledBack(f, current, n, i) == f

\* the renames of the shift made before the rename of current.i fails
CompletedRenames(f, current, n, i) == ShiftFilesAbove(f, current, n - 1, i)

\* std::fs::copy that stops after k bytes: current.1 is created, or emptied
\* if it exists, and holds the bytes copied so far
CopyPart(f, current, k) ==
    IF k < 0 THEN f
    ELSE [q \in DOMAIN f \cup {Suffixed(current, Num(1))} |->
            IF q = Suffixed(current, Num(1)) THEN SubSeq(f[current], 1, k)
            ELSE f[q]]

\* the directory that rotate_by_size leaves when fail returns an error: f1 is
\* f after the removal of the oldest backup, f2 is f1 after the whole shift
FailedAt(f, f1, f2, current, n, fail) ==
    CASE fail[1] = "remove_file" ->
           IF exists(f, Suffixed(current, Num(n))) THEN <<f>> ELSE <<>>
      [] fail[1] = "rename" ->
           IF fail[2] <= n - 1 /\ exists(f1, Suffixed(current, Num(fail[2])))
           THEN <<CompletedRenames(f1, current, n, fail[2])>> ELSE <<>>
      [] fail[1] = "copy" ->
           IF exists(f2, current) /\ fail[2] < Len(f2[current])
           THEN <<CopyPart(f2, current, fail[2])>> ELSE <<>>
      [] fail[1] = "truncate" ->
           IF exists(f2, current) THEN <<CopyKeep(f2, current)>> ELSE <<>>
      [] fail[1] = "set_len" ->
           IF exists(f2, current) THEN <<CopyTruncate(f2, current)>> ELSE <<>>
      [] OTHER -> <<>>

rotate_by_size_fails(trig, f, t, fail) ==
    FailedAt(f,
             RemoveOldest(f, Suffixed(current_file_path(trig, t),
                                      Num(MaxFilesOrDefault(trig)))),
             ShiftFiles(RemoveOldest(f, Suffixed(current_file_path(trig, t),
                                                 Num(MaxFilesOrDefault(trig)))),
                        current_file_path(trig, t),
                        MaxFilesOrDefault(trig) - 1),
             current_file_path(trig, t), MaxFilesOrDefault(trig), fail)

\* rotate returns an error: in rotate_by_size, or at the open of the new file
rotate_fails(trig, f, r, fail) ==
    IF fail[1] = "open"
    THEN <<IF has_size_rotation(trig) THEN rotate_by_size(trig, f, r[2]) ELSE f>>
    ELSE IF has_size_rotation(trig)
    THEN rotate_by_size_fails(trig, f, r[2], fail)
    ELSE <<>>

\* get_or_rotate returns an error: the directory it leaves.  The guard holds
\* None afterwards: it was None, or it was set to None before rotate
get_or_rotate_fails(trig, f, st, buf_len, r, fail) ==
    IF fail[1] = "metadata"
    THEN IF st = <<>> /\ exists(f, base_path) /\ has_size_rotation(trig)
         THEN <<f>> ELSE <<>>
    ELSE IF (IF st = <<>> THEN ~should_use_existing_file(trig, f)
             ELSE needs_rotation(trig, st[1], buf_len, r[1]))
    THEN rotate_fails(trig, f, r, fail)
    ELSE IF st = <<>> /\ fail[1] = "open" THEN <<f>>
    ELSE <<>>

-----------------------------------------------------------------------------
(* Inputs *)

\* the i-th byte of the buffer of the c-th write call; the bytes below 16
\* are those of the files found in the directory
BufOf(c, n) == [i \in 1..n |-> 16 * c + i]

CallOf(byte) == byte \div 16

Short == <<1>>

Long == <<1, 2>>

Periods == {"Never", "Hourly", "Daily", "Weekly", "Monthly"}

SizeTriggers == {size(1, n) : n \in 0..2} \cup {size(2, 1)}

BothTriggers == {both("Daily", 1, 2), both("Never", 1, 1)}

TimeTriggers == {time("Daily")}

Triggers ==
    {Never} \cup TimeTriggers \cup {size(1, 1), size(2, 1), both("Daily", 1, 2)}

\* the directories the first construction may find: the active file absent,
\* within max_size or above it; its first backup (Size); a bare base file
\* beside the time-suffixed active file (Both); a file that already carries
\* the label of the next time bucket
InitDirs(trig) ==
    LET active == current_file_path(trig, 0)
        Main   == {<<>>, <<Short>>, <<Long>>}
        Backup == IF active = base_path THEN {<<>>, <<<<4>>>>} ELSE {<<>>}
        Bare   == IF trig.kind = "Both" /\ active # base_path
                  THEN {<<>>, <<Short>>} ELSE {<<>>}
        later  == current_file_path(trig, 1)
        Later  == IF later # active THEN {<<>>, <<<<5>>>>} ELSE {<<>>}
        Dir(a, b, c, d) ==
            LET files == {e \in {<<active, a>>,
                                 <<Suffixed(active, Num(1)), b>>,
                                 <<base_path, c>>,
                                 <<later, d>>} : e[2] # <<>>}
            IN [p \in {e[1] : e \in files} |->
                    (CHOOSE e \in files : e[1] = p)[2][1]]
    IN {Dir(a, b, c, d) : a \in Main, b \in Backup, c \in Bare, d \in Later}

\* the values the clock may show at the (up to four) calls of get_suffix made
\* inside one get_or_rotate: the clock does not stop while the lock is held
TimeDependent(trig) == trig.kind \in {"Time", "Both"} /\ trig.period # "Never"

ClockReads(trig) ==
    IF TimeDependent(trig)
    THEN {r \in [1..4 -> now..MaxNow] : \A i \in 1..3 : r[i] <= r[i + 1]}
    ELSE {[i \in 1..4 |-> now]}

\* the value returned by a call: Ok or Err, for the write call id (0: flush)
NoReturn == [op |-> "none", id |-> 0, ok |-> TRUE, err |-> <<>>, at |-> <<>>]

Returned(op, id, ok) ==
    [op |-> op, id |-> id, ok |-> ok, err |-> <<>>, at |-> <<>>]

\* Err from the file operation fail of a rotation of the path at
ReturnedErr(op, id, fail, at) ==
    [op |-> op, id |-> id, ok |-> FALSE, err |-> fail, at |-> at]

\* base_path.parent() has depth components, of which the first made exist
\* as directories (found: those that existed at first); depth 0: the parent
\* is empty (a bare file name)
NoParent == [depth |-> 0, made |-> 0, found |-> 0]

create_dir_none(d) == d

\* std::fs::create_dir_all(parent), skipped when the parent is empty
create_dir_all(d) == [d EXCEPT !.made = d.depth]

\* the longest content of a file of the model
MaxContent == Len(Long) + MaxAppends * MaxBufLen

Failures(trig) ==
    {<<"metadata">>, <<"remove_file">>, <<"truncate">>, <<"set_len">>,
     <<"open">>}
    \cup {<<"rename", i>> : i \in 1..(MaxFilesOrDefault(trig) - 1)}
    \cup {<<"copy", k>> : k \in (-1)..(MaxContent - 1)}

NoCall ==
    [id |-> 0, buf |-> <<>>, pre |-> <<>>, rotated |-> FALSE, rots |-> 0,
     t0 |-> 0]

-----------------------------------------------------------------------------
(* The state machine *)

InitWith(T) ==
    /\ trigger \in T
    /\ fs \in InitDirs(trigger)
    /\ initFs = fs
    /\ alive = FALSE
    /\ state = <<>>
    /\ lock = 0
    /\ now = 0
    /\ pc = [t \in Threads |-> "idle"]
    /\ cur = [t \in Threads |-> NoCall]
    /\ synced = FALSE
    /\ appends = 0
    /\ constructs = 0
    /\ log = <<>>
    /\ callers = {}
    /\ opened = [by |-> "none", held |-> <<>>]
    /\ expect = <<>>
    /\ rotations = 0
    /\ dirs = NoParent
    /\ attempt = <<>>
    /\ ret = NoReturn

Init == InitWith(Triggers)

SharedBorrow(t) == TRUE

\* write and flush take &mut self: no other call on this writer is running
ExclusiveBorrow(t) == \A u \in Threads \ {t} : pc[u] = "idle"

\* the effect of RotatingWriter::new given the result of its get_or_rotate(0)
Constructed(res, rot, t) ==
    /\ fs' = res.fs
    /\ state' = res.state
    /\ now' = t
    /\ rotations' = rotations + (IF rot /\ res.rotated THEN 1 ELSE 0)
    /\ opened' = [by |-> "new", held |-> res.fs[res.state[1].file]]
    /\ expect' = <<>>

\* RotatingWriter::new
Construct ==
    /\ ~alive
    /\ constructs < MaxConstructs
    /\ lock = 0
    /\ \E r \in ClockReads(trigger) :
         Constructed(get_or_rotate(trigger, fs, <<>>, 0, r),
                     has_size_rotation(trigger), r[4])
    /\ alive' = TRUE
    /\ constructs' = constructs + 1
    /\ synced' = FALSE
    /\ dirs' = create_dir_all(dirs)
    /\ UNCHANGED attempt
    /\ UNCHANGED <<trigger, lock, pc, cur, appends, initFs, log, callers, ret>>

\* the writer is dropped (the process ends); the files stay
Drop ==
    /\ alive
    /\ \A t \in Threads : pc[t] = "idle"
    /\ alive' = FALSE
    /\ state' = <<>>
    /\ synced' = FALSE
    /\ UNCHANGED <<dirs, attempt>>
    /\ UNCHANGED <<fs, trigger, lock, now, pc, cur, appends, constructs,
                   initFs, log, callers, opened, expect, rotations, ret>>

\* a thread calls write(buf)
WriteCall(t) ==
    /\ alive
    /\ pc[t] = "idle"
    /\ ExclusiveBorrow(t)
    /\ appends < MaxAppends
    /\ \E n \in 0..MaxBufLen :
         cur' = [cur EXCEPT ![t] = [id |-> appends + 1,
                                    buf |-> BufOf(appends + 1, n),
                                    pre |-> <<>>, rotated |-> FALSE,
                                    rots |-> rotations, t0 |-> now]]
    /\ appends' = appends + 1
    /\ pc' = [pc EXCEPT ![t] = "get_or_rotate"]
    /\ UNCHANGED <<dirs, attempt>>
    /\ UNCHANGED <<fs, trigger, alive, state, lock, now, synced, constructs,
                   initFs, log, callers, opened, expect, rotations, ret>>

\* get_or_rotate: self.state.lock()
GetOrRotateLock(t) ==
    /\ pc[t] = "get_or_rotate"
    /\ lock = 0
    /\ lock' = t
    /\ pc' = [pc EXCEPT ![t] = "decide"]
    /\ UNCHANGED <<dirs, attempt>>
    /\ UNCHANGED <<fs, trigger, alive, state, now, cur, synced, appends,
                   constructs, initFs, log, callers, opened, expect, rotations, ret>>

\* the effect of get_or_rotate(buf.len()) given its result
Decided(t, res, rot, clock) ==
    /\ fs' = res.fs
    /\ state' = res.state
    /\ now' = clock
    /\ rotations' = rotations + (IF rot /\ res.rotated THEN 1 ELSE 0)
    /\ opened' = IF res.rotated \/ state = <<>>
                 THEN [by   |-> IF res.rotated THEN "write" ELSE "reopen",
                       held |-> res.fs[res.state[1].file]]
                 ELSE opened
    /\ expect' = IF res.rotated \/ state = <<>> THEN <<>> ELSE expect
    /\ synced' = IF res.rotated \/ state = <<>> THEN FALSE ELSE synced
    /\ cur' = [cur EXCEPT ![t].pre = state, ![t].rotated = res.rotated]

\* get_or_rotate under the lock: the decision, the rotation, and the drop of
\* the guard on return
GetOrRotateBody(t) ==
    /\ pc[t] = "decide"
    /\ lock = t
    /\ \E r \in ClockReads(trigger) :
         Decided(t, get_or_rotate(trigger, fs, state, Len(cur[t].buf), r),
                 has_size_rotation(trigger), r[4])
    /\ lock' = 0
    /\ pc' = [pc EXCEPT ![t] = "write"]
    /\ UNCHANGED <<dirs, attempt>>
    /\ UNCHANGED <<trigger, alive, appends, constructs, initFs, log, callers,
                   ret>>

\* the effect of a get_or_rotate that returns an error, given the directory
\* it leaves: the guard holds None
Failed(left, clock) ==
    /\ left # <<>>
    /\ fs' = left[1]
    /\ state' = <<>>
    /\ now' = clock
    /\ opened' = [by |-> "none", held |-> <<>>]
    /\ expect' = <<>>
    /\ synced' = FALSE

ErrorRetried(t) ==
    /\ pc' = [pc EXCEPT ![t] = "get_or_rotate"]
    /\ UNCHANGED cur

\* the ? operator after get_or_rotate: write returns the error at once
ErrorReturned(t) ==
    /\ pc' = [pc EXCEPT ![t] = "idle"]
    /\ cur' = [cur EXCEPT ![t] = NoCall]

\* write when get_or_rotate returns an error: the ? operator returns it
GetOrRotateFails(t) ==
    /\ pc[t] = "decide"
    /\ lock = t
    /\ \E r \in ClockReads(trigger), fail \in Failures(trigger) :
         /\ Failed(get_or_rotate_fails(trigger, fs, state, Len(cur[t].buf), r,
                                       fail), r[4])
         /\ ret' = ReturnedErr("write", cur[t].id, fail,
                               current_file_path(trigger, r[2]))
    /\ lock' = 0
    /\ ErrorReturned(t)
    /\ UNCHANGED <<dirs, attempt>>
    /\ UNCHANGED <<trigger, alive, appends, constructs, initFs, log, callers,
                   rotations>>

\* RotatingWriter::new when get_or_rotate(0) returns an error: no writer
ConstructFails ==
    /\ ~alive
    /\ constructs < MaxConstructs
    /\ lock = 0
    /\ \E r \in ClockReads(trigger), fail \in Failures(trigger) :
         /\ Failed(get_or_rotate_fails(trigger, fs, <<>>, 0, r, fail), r[4])
         /\ ret' = ReturnedErr("new", 0, fail, current_file_path(trigger, r[2]))
    /\ constructs' = constructs + 1
    /\ dirs' = create_dir_all(dirs)
    /\ UNCHANGED attempt
    /\ UNCHANGED <<trigger, alive, lock, pc, cur, appends, initFs, log,
                   callers, rotations>>

\* write: state_arc.lock()
WriteLock(t) ==
    /\ pc[t] = "write"
    /\ lock = 0
    /\ lock' = t
    /\ pc' = [pc EXCEPT ![t] = "writing"]
    /\ UNCHANGED <<dirs, attempt>>
    /\ UNCHANGED <<fs, trigger, alive, state, now, cur, synced, appends,
                   constructs, initFs, log, callers, opened, expect, rotations, ret>>

\* write under the lock: state.file.write(buf), state.size += written
WriteBody(t) ==
    /\ pc[t] = "writing"
    /\ lock = t
    /\ IF state # <<>>
       THEN LET st      == state[1]
                written == Len(cur[t].buf)
            IN /\ fs' = [fs EXCEPT ![st.file] = file_write(@, cur[t].buf)]
               /\ state' = <<[st EXCEPT !.size = @ + written]>>
               /\ expect' = expect \o cur[t].buf
               /\ synced' = FALSE
               /\ callers' = callers \cup {t}
               /\ log' = Append(log, [id |-> cur[t].id,
                                      len |-> Len(cur[t].buf),
                                      written |-> written,
                                      rotated |-> cur[t].rotated,
                                      nrot |-> rotations - cur[t].rots,
                                      file |-> st.file])
       ELSE \* Err("Failed to open log file")
            UNCHANGED <<fs, state, expect, synced, log, callers>>
    /\ ret' = Returned("write", cur[t].id, state # <<>>)
    /\ lock' = 0
    /\ pc' = [pc EXCEPT ![t] = "idle"]
    /\ cur' = [cur EXCEPT ![t] = NoCall]
    /\ UNCHANGED <<dirs, attempt>>
    /\ UNCHANGED <<trigger, alive, now, appends, constructs, initFs,
                   opened, rotations>>

FlushRotating(t) ==
    /\ alive
    /\ pc[t] = "idle"
    /\ ExclusiveBorrow(t)
    /\ lock = 0
    /\ state # <<>>
    /\ Decided(t, get_or_rotate(trigger, fs, state, 0, [i \in 1..4 |-> now]),
               has_size_rotation(trigger), now)
    /\ ret' = Returned("flush", 0, TRUE)
    /\ UNCHANGED <<dirs, attempt>>
    /\ UNCHANGED <<trigger, alive, lock, pc, appends, constructs, initFs, log,
                   callers>>

\* flush: lock, sync_all on the handle if there is one, unlock
Flush(t) ==
    /\ alive
    /\ pc[t] = "idle"
    /\ ExclusiveBorrow(t)
    /\ lock = 0
    /\ synced' = IF state # <<>> THEN TRUE ELSE synced
    /\ ret' = Returned("flush", 0, TRUE)
    /\ UNCHANGED <<dirs, attempt>>
    /\ UNCHANGED <<fs, trigger, alive, state, lock, now, pc, cur, appends,
                   constructs, initFs, log, callers, opened, expect, rotations>>

\* the clock advances
Tick ==
    /\ now < MaxNow
    /\ now' = now + 1
    /\ UNCHANGED <<dirs, attempt>>
    /\ UNCHANGED <<fs, trigger, alive, state, lock, pc, cur, synced, appends,
                   constructs, initFs, log, callers, opened, expect, rotations, ret>>

Next ==
    \/ Construct
    \/ Drop
    \/ Tick
    \/ \E t \in Threads : WriteCall(t)
    \/ \E t \in Threads : GetOrRotateLock(t)
    \/ \E t \in Threads : GetOrRotateBody(t)
    \/ \E t \in Threads : WriteLock(t)
    \/ \E t \in Threads : WriteBody(t)
    \/ \E t \in Threads : Flush(t)

Spec == Init /\ [][Next]_vars

\* the same machine when file operations may return errors
NextIo ==
    \/ Next
    \/ ConstructFails
    \/ \E t \in Threads : GetOrRotateFails(t)

InitIo == InitWith({size(1, 3)})

SpecIo == InitIo /\ [][NextIo]_vars

\* the same machine under the Never trigger only
InitNever == InitWith({Never})

SpecNever == InitNever /\ [][Next]_vars

\* the same machine under the triggers with size rotation
InitSize == InitWith(SizeTriggers \cup BothTriggers)

SpecSize == InitSize /\ [][Next]_vars

\* the same machine under the Time triggers of every period
InitTime == InitWith({time(p) : p \in Periods})

SpecTime == InitTime /\ [][Next]_vars

\* the same machine under the Time and Both triggers of period Never
InitPeriodNever == InitWith({time("Never"), both("Never", 1, 2)})

SpecPeriodNever == InitPeriodNever /\ [][Next]_vars

\* The size-rotation test: RotationTrigger::size(50, 3) on an empty
\* directory, then five write_all of one line each, then flush
ScenarioTrigger == size(50, 3)

ScenarioLines == 5

\* the lengths of a line of about 20 bytes
LineLens == 17..25

\* the effect of write(buf) given the result of its get_or_rotate
Written(t, res, id, buf) ==
    /\ fs' = [res.fs EXCEPT ![res.state[1].file] = file_write(@, buf)]
    /\ state' = <<[res.state[1] EXCEPT !.size = @ + Len(buf)]>>
    /\ rotations' = rotations + (IF res.rotated THEN 1 ELSE 0)
    /\ opened' = IF res.rotated
                 THEN [by |-> "write", held |-> res.fs[res.state[1].file]]
                 ELSE opened
    /\ expect' = (IF res.rotated THEN <<>> ELSE expect) \o buf
    /\ log' = Append(log, [id |-> id, len |-> Len(buf), written |-> Len(buf),
                           rotated |-> res.rotated,
                           nrot |-> IF res.rotated THEN 1 ELSE 0,
                           file |-> res.state[1].file])
    /\ callers' = callers \cup {t}
    /\ ret' = Returned("write", id, TRUE)

\* write_all of one line by the only thread of the test: get_or_rotate and
\* the write, with no other call in between
WriteAll(t) ==
    /\ alive
    /\ t = 1
    /\ pc[t] = "idle"
    /\ lock = 0
    /\ state # <<>>
    /\ appends < ScenarioLines
    /\ \E n \in LineLens :
         Written(t, get_or_rotate(trigger, fs, state, n, [i \in 1..4 |-> now]),
                 appends + 1, BufOf(appends + 1, n))
    /\ appends' = appends + 1
    /\ synced' = FALSE
    /\ UNCHANGED <<dirs, attempt>>
    /\ UNCHANGED <<trigger, alive, lock, now, pc, cur, constructs, initFs>>

InitScenario ==
    /\ trigger = ScenarioTrigger
    /\ fs = [p \in {} |-> <<>>]
    /\ initFs = fs
    /\ alive = FALSE
    /\ state = <<>>
    /\ lock = 0
    /\ now = 0
    /\ pc = [t \in Threads |-> "idle"]
    /\ cur = [t \in Threads |-> NoCall]
    /\ synced = FALSE
    /\ appends = 0
    /\ constructs = 0
    /\ log = <<>>
    /\ callers = {}
    /\ opened = [by |-> "none", held |-> <<>>]
    /\ expect = <<>>
    /\ rotations = 0
    /\ dirs = NoParent
    /\ attempt = <<>>
    /\ ret = NoReturn

NextScenario == Construct \/ WriteAll(1) \/ Flush(1)

SpecScenario == InitScenario /\ [][NextScenario]_vars

\* needs_rotation as a function of its inputs: any trigger, any FileState
\* (size, label of any period or none), any buffer length, any hour
MaxSize == 2

NeedsTriggers ==
    {Never} \cup {time(p) : p \in Periods}
    \cup {size(m, 1) : m \in 0..MaxSize}
    \cup {both(p, m, 1) : p \in Periods, m \in 0..MaxSize}

Labels == {<<>>} \cup {get_suffix(p, t) : p \in Periods, t \in 0..MaxNow}

InitNeeds ==
    /\ trigger \in NeedsTriggers
    /\ fs = [p \in {} |-> <<>>]
    /\ initFs = fs
    /\ alive = TRUE
    /\ \E n \in 0..(MaxSize + 1), l \in Labels :
         state = <<[file |-> current_file_path(trigger, 0), size |-> n,
                    time_suffix |-> l]>>
    /\ lock = 0
    /\ now \in 0..MaxNow
    /\ pc = [t \in Threads |-> "idle"]
    /\ \E n \in 0..MaxBufLen :
         cur = [t \in Threads |-> [NoCall EXCEPT !.buf = BufOf(1, n)]]
    /\ synced = FALSE
    /\ appends = 0
    /\ constructs = 0
    /\ log = <<>>
    /\ callers = {}
    /\ opened = [by |-> "none", held |-> <<>>]
    /\ expect = <<>>
    /\ rotations = 0
    /\ dirs = NoParent
    /\ attempt = <<>>
    /\ ret = NoReturn

\* one call of needs_rotation(state, buf.len()); ok holds the bool returned
NeedsRotationCall ==
    /\ ret.op = "none"
    /\ ret' = Returned("needs_rotation", 0,
                       needs_rotation(trigger, state[1], Len(cur[1].buf), now))
    /\ UNCHANGED <<dirs, attempt>>
    /\ UNCHANGED <<fs, trigger, alive, state, lock, now, pc, cur, synced,
                   appends, constructs, initFs, log, callers, opened, expect,
                   rotations>>

NextNeeds == NeedsRotationCall

SpecNeeds == InitNeeds /\ [][NextNeeds]_vars

\* get_suffix as a function of the instant of its clock read.  An instant is
\* counted in hours of UTC from 2026-01-01T00Z.  now_local adds the offset
\* of the zone at that instant; the zone of the model is on UTC+2 until
\* 2026-10-25T01Z (the end of summer time) and on UTC+1 after it.
FallBack == 297 * 24 + 1

UtcOffset(u) == IF u < FallBack THEN 2 ELSE 1

now_local(u) == u + UtcOffset(u)

now_utc(u) == u

\* OffsetDateTime::now_local().unwrap_or_else(|_| OffsetDateTime::now_utc())
get_suffix_at(period, u, local) ==
    FormatHour(period, IF local THEN now_local(u) ELSE now_utc(u))

\* the calendar of the instants: from Saturday 2026-10-24T00Z on, over the
\* end of summer time, a Monday and the first day of a month
CalStart == 296 * 24

CalHours == 216

Instants == CalStart..(CalStart + CalHours)

\* the periods with a label
Labelled == Periods \ {"Never"}

InitLabel ==
    /\ trigger \in {time(p) : p \in Labelled}
    /\ fs = [p \in {} |-> <<>>]
    /\ initFs = fs
    /\ alive = FALSE
    /\ state = <<>>
    /\ lock = 0
    /\ now = 0
    /\ pc = [t \in Threads |-> "idle"]
    /\ cur = [t \in Threads |-> NoCall]
    /\ synced = FALSE
    /\ appends = 0
    /\ constructs = 0
    /\ log = <<>>
    /\ callers = {}
    /\ opened = [by |-> "none", held |-> <<>>]
    /\ expect = <<>>
    /\ rotations = 0
    /\ dirs = NoParent
    /\ attempt = <<>>
    /\ ret = NoReturn

\* one call of period.get_suffix() at an instant not before the last one;
\* the local offset is available to the call or it is not
GetSuffixCall ==
    /\ Len(log) < 2
    /\ \E u \in Instants, local \in BOOLEAN :
         /\ log # <<>> => log[Len(log)].at <= u
         /\ log' = Append(log, [at |-> u, local |-> local,
                                suffix |-> get_suffix_at(trigger.period, u,
                                                         local)])
    /\ UNCHANGED <<dirs, attempt>>
    /\ UNCHANGED <<fs, trigger, alive, state, lock, now, pc, cur, synced,
                   appends, constructs, initFs, callers, opened, expect,
                   rotations, ret>>

NextLabel == GetSuffixCall

SpecLabel == InitLabel /\ [][NextLabel]_vars

-----------------------------------------------------------------------------
(* Size values of the configuration (src/src/rotation.rs).  A string is a   *)
(* sequence of characters and a character a TLA+ string that names it.  A   *)
(* u64 is kept at its width as four limbs of 16 bits, lowest first.  A      *)
(* Result is [kind |-> "Ok", val |-> ..] or [kind |-> "Err", msg |-> ..];   *)
(* a call that panics gives [kind |-> "Panic"].                             *)

Limb == 65536

Zero64 == <<0, 0, 0, 0>>

MulAdd4(l1, l2, l3, p4) ==
    [val |-> <<l1, l2, l3, p4 % Limb>>, over |-> p4 \div Limb # 0]

MulAdd3(x, m, l1, l2, p3) ==
    MulAdd4(l1, l2, p3 % Limb, x[4] * m + p3 \div Limb)

MulAdd2(x, m, l1, p2) == MulAdd3(x, m, l1, p2 % Limb, x[3] * m + p2 \div Limb)

MulAdd1(x, m, p1) == MulAdd2(x, m, p1 % Limb, x[2] * m + p1 \div Limb)

\* x * m + a in 64 bits, for m and a below 2^15, and whether it overflowed
MulAdd(x, m, a) == MulAdd1(x, m, x[1] * m + a)

Digits == <<"0", "1", "2", "3", "4", "5", "6", "7", "8", "9">>

is_ascii_digit(c) == \E i \in 1..10 : Digits[i] = c

to_digit(c) == (CHOOSE i \in 1..10 : Digits[i] = c) - 1

\* the characters of the model: digits, the unit letters in both cases, a
\* letter that is no unit, two letters that are not ASCII (U+00E9, 2 bytes
\* of UTF-8; U+041C, the Cyrillic capital em, 2 bytes), a space, a sign and
\* a dot
Letters == {"k", "K", "m", "M", "g", "G", "X", "U+00E9", "U+041C"}

is_alphabetic(c) == c \in Letters

len_utf8(c) == IF c \in {"U+00E9", "U+041C"} THEN 2 ELSE 1

is_whitespace(c) == c = " "

keep_case(c) == c

to_ascii_uppercase(c) ==
    CASE c = "k" -> "K"
      [] c = "m" -> "M"
      [] c = "g" -> "G"
      [] OTHER   -> c

RECURSIVE trim_start(_)
trim_start(s) ==
    IF s # <<>> /\ is_whitespace(s[1]) THEN trim_start(Tail(s)) ELSE s

RECURSIVE trim_end(_)
trim_end(s) ==
    IF s # <<>> /\ is_whitespace(s[Len(s)])
    THEN trim_end(SubSeq(s, 1, Len(s) - 1)) ELSE s

trim(s) == trim_end(trim_start(s))

\* the fold of u64::from_str over the digits: checked_mul(10), checked_add
RECURSIVE from_digits(_, _, _)
from_digits(s, i, acc) ==
    IF acc.over THEN <<>>
    ELSE IF i > Len(s) THEN <<acc.val>>
    ELSE IF ~is_ascii_digit(s[i]) THEN <<>>
    ELSE from_digits(s, i + 1, MulAdd(acc.val, 10, to_digit(s[i])))

\* str::parse::<u64>: an optional +, then one or more ASCII digits, no
\* overflow; the result is an Option
parse_u64(s) ==
    IF s = <<>> THEN <<>>
    ELSE IF s[1] = "+"
    THEN IF Len(s) = 1 THEN <<>>
         ELSE from_digits(s, 2, [val |-> Zero64, over |-> FALSE])
    ELSE from_digits(s, 1, [val |-> Zero64, over |-> FALSE])

Ok(v) == [kind |-> "Ok", val |-> v]

Err(msg) == [kind |-> "Err", msg |-> msg]

Panic == [kind |-> "Panic"]

\* the multiplier of a unit as a number of factors 1024
multiplier(unit) ==
    CASE unit = "K" -> <<1>>
      [] unit = "M" -> <<2>>
      [] unit = "G" -> <<3>>
      [] OTHER      -> <<>>

\* num.checked_mul(1024^k): Some(product) or None
RECURSIVE checked_mul(_, _)
checked_mul(acc, k) ==
    IF acc.over THEN <<>>
    ELSE IF k = 0 THEN <<acc.val>>
    ELSE checked_mul(MulAdd(acc.val, 1024, 0), k - 1)

\* the tail of parse_size once num_str and unit are split
parse_size_of(num, num_str, unit) ==
    IF num = <<>> THEN Err(<<"invalid number", num_str>>)
    ELSE IF multiplier(unit) = <<>> THEN Err(<<"invalid unit", unit>>)
    ELSE IF checked_mul([val |-> num[1], over |-> FALSE],
                        multiplier(unit)[1]) = <<>>
    THEN Err(<<"size too large">>)
    ELSE Ok(checked_mul([val |-> num[1], over |-> FALSE],
                        multiplier(unit)[1])[1])

\* parse_size after s.trim(): &s[..len - 1] cuts one byte, which is inside
\* the last character when that character is longer than one byte
parse_size_trimmed(t) ==
    IF t = <<>> THEN Err(<<"empty size string">>)
    ELSE IF is_alphabetic(t[Len(t)])
    THEN IF len_utf8(t[Len(t)]) > 1 THEN Panic
         ELSE parse_size_of(parse_u64(SubSeq(t, 1, Len(t) - 1)),
                            SubSeq(t, 1, Len(t) - 1),
                            to_ascii_uppercase(t[Len(t)]))
    ELSE parse_size_of(parse_u64(t), t, "K")

parse_size(s) == parse_size_trimmed(trim(s))

\* u64::to_string of a number below 2^31
RECURSIVE to_string(_)
to_string(n) ==
    IF n < 10 THEN <<Digits[n + 1]>>
    ELSE Append(to_string(n \div 10), Digits[(n % 10) + 1])

\* SizeValue::to_bytes
to_bytes(v) ==
    IF v.variant = "Number" THEN parse_size(to_string(v.n)) ELSE parse_size(v.s)

\* The inputs: every string of at most MaxStrLen characters of SizeChars,
\* the strings around the largest magnitude of each unit and around the
\* largest u64, and the numbers up to MaxMagnitude
MaxStrLen == 3

MaxMagnitude == 99

SizeChars == {"0", "1", "5", "9", " ", "+", "."} \cup Letters

ShortStrings == UNION {[1..n -> SizeChars] : n \in 0..MaxStrLen}

LongStrings ==
    {<<"1", "8", "0", "1", "4", "3", "9", "8", "5", "0", "9", "4", "8", "1", "9", "8", "3", "K">>,
     <<"1", "8", "0", "1", "4", "3", "9", "8", "5", "0", "9", "4", "8", "1", "9", "8", "4", "K">>,
     <<"1", "7", "5", "9", "2", "1", "8", "6", "0", "4", "4", "4", "1", "5", "M">>,
     <<"1", "7", "5", "9", "2", "1", "8", "6", "0", "4", "4", "4", "1", "6", "m">>,
     <<"1", "7", "1", "7", "9", "8", "6", "9", "1", "8", "3", "G">>,
     <<"1", "7", "1", "7", "9", "8", "6", "9", "1", "8", "4", "g">>,
     <<"1", "8", "4", "4", "6", "7", "4", "4", "0", "7", "3", "7", "0", "9", "5", "5", "1", "6", "1", "5">>,
     <<"1", "8", "4", "4", "6", "7", "4", "4", "0", "7", "3", "7", "0", "9", "5", "5", "1", "6", "1", "6">>,
     <<"1", "8", "4", "4", "6", "7", "4", "4", "0", "7", "3", "7", "0", "9", "5", "5", "1", "6", "1", "5", "X">>}

SizeValues ==
    {[variant |-> "String", s |-> s] : s \in ShortStrings \cup LongStrings}
    \cup {[variant |-> "Number", n |-> n] : n \in 0..MaxMagnitude}

InitPlain ==
    /\ fs = [p \in {} |-> <<>>]
    /\ initFs = fs
    /\ alive = FALSE
    /\ state = <<>>
    /\ lock = 0
    /\ now = 0
    /\ pc = [t \in Threads |-> "idle"]
    /\ cur = [t \in Threads |-> NoCall]
    /\ synced = FALSE
    /\ appends = 0
    /\ constructs = 0
    /\ log = <<>>
    /\ callers = {}
    /\ opened = [by |-> "none", held |-> <<>>]
    /\ expect = <<>>
    /\ rotations = 0
    /\ dirs = NoParent
    /\ attempt = <<>>
    /\ ret = NoReturn

InitSizeValue == trigger = Never /\ InitPlain

\* one call of SizeValue::to_bytes; ret keeps the value and the result
ToBytesCall ==
    /\ ret.op = "none"
    /\ \E v \in SizeValues :
         ret' = [op |-> "to_bytes", v |-> v, res |-> to_bytes(v)]
    /\ UNCHANGED <<dirs, attempt>>
    /\ UNCHANGED <<fs, trigger, alive, state, lock, now, pc, cur, synced,
                   appends, constructs, initFs, log, callers, opened, expect,
                   rotations>>

NextSizeValue == ToBytesCall

SpecSizeValue == InitSizeValue /\ [][NextSizeValue]_vars

\* The writer on a base path whose parent directories may be missing
\* (nested/inner/test.log): the directory is empty unless the parent exists
ParentDepth == 2

InitParent ==
    /\ trigger \in {Never, size(1, 3)}
    /\ \E k \in 0..ParentDepth :
         dirs = [depth |-> ParentDepth, made |-> k, found |-> k]
    /\ attempt = <<>>
    /\ fs \in IF dirs.made = dirs.depth THEN InitDirs(trigger)
              ELSE {[p \in {} |-> <<>>]}
    /\ initFs = fs
    /\ alive = FALSE
    /\ state = <<>>
    /\ lock = 0
    /\ now = 0
    /\ pc = [t \in Threads |-> "idle"]
    /\ cur = [t \in Threads |-> NoCall]
    /\ synced = FALSE
    /\ appends = 0
    /\ constructs = 0
    /\ log = <<>>
    /\ callers = {}
    /\ opened = [by |-> "none", held |-> <<>>]
    /\ expect = <<>>
    /\ rotations = 0
    /\ ret = NoReturn

\* RotatingWriter::new when create_dir_all returns an error, after it has
\* made some of the missing directories: the ? operator returns it
ConstructFailsAtDir ==
    /\ ~alive
    /\ constructs < MaxConstructs
    /\ lock = 0
    /\ dirs.made < dirs.depth
    /\ \E k \in dirs.made..(dirs.depth - 1) : dirs' = [dirs EXCEPT !.made = k]
    /\ UNCHANGED attempt
    /\ ret' = ReturnedErr("new", 0, <<"create_dir_all">>, base_path)
    /\ constructs' = constructs + 1
    /\ UNCHANGED <<fs, trigger, alive, state, lock, now, pc, cur, synced,
                   appends, initFs, log, callers, opened, expect, rotations>>

NextParent == NextIo \/ ConstructFailsAtDir

SpecParent == InitParent /\ [][NextParent]_vars

-----------------------------------------------------------------------------
(* impl Deserialize for RotationTrigger (src/src/rotation.rs).  The input   *)
(* is RotationInput::Simple(s) or RotationInput::Complex with its four      *)
(* optional fields as they are in the document; a type is a whole string.   *)
(* The build has the feature "time" (the shorthand "time" and "both" are    *)
(* errors without it).                                                      *)

u64_of(v) == <<v % Limb, v \div Limb, 0, 0>>

\* 10 * 1024 * 1024
DefaultMaxSize == u64_of(10 * 1024 * 1024)

\* #[serde(rename_all = "snake_case")] on RotationPeriod: an Option
period_of(name) ==
    CASE name = "never"   -> <<"Never">>
      [] name = "hourly"  -> <<"Hourly">>
      [] name = "daily"   -> <<"Daily">>
      [] name = "weekly"  -> <<"Weekly">>
      [] name = "monthly" -> <<"Monthly">>
      [] OTHER            -> <<>>

max_files_or_default(opt) == IF opt = <<>> THEN DefaultMaxFiles ELSE opt[1]

deserialize_simple(rotation_type) ==
    CASE rotation_type = "never" -> Ok(Never)
      [] rotation_type = "size"  -> Ok(size(DefaultMaxSize, DefaultMaxFiles))
      [] rotation_type = "time"  -> Ok(time("Daily"))
      [] rotation_type = "both"  ->
           Ok(both("Daily", DefaultMaxSize, DefaultMaxFiles))
      [] OTHER -> Err(<<"unknown rotation type", rotation_type>>)

deserialize_complex(in) ==
    IF in.period # <<>> /\ period_of(in.period[1]) = <<>>
    THEN Err(<<"data did not match any variant of untagged enum">>)
    ELSE IF in.type = <<>> \/ in.type = <<"never">> THEN Ok(Never)
    ELSE IF in.type = <<"time">>
    THEN IF in.period = <<>>
         THEN Err(<<"period is required for time-based rotation">>)
         ELSE Ok(time(period_of(in.period[1])[1]))
    ELSE IF in.type = <<"size">>
    THEN IF in.max_size = <<>>
         THEN Err(<<"max_size is required for size-based rotation">>)
         ELSE \* to_bytes().map_err(de::Error::custom)?
              LET bytes == to_bytes(in.max_size[1])
              IN IF bytes.kind # "Ok" THEN bytes
                 ELSE Ok(size(bytes.val, max_files_or_default(in.max_files)))
    ELSE IF in.type = <<"both">>
    THEN IF in.period = <<>>
         THEN Err(<<"period is required for time+size rotation">>)
         ELSE IF in.max_size = <<>>
         THEN Err(<<"max_size is required for time+size rotation">>)
         ELSE LET bytes == to_bytes(in.max_size[1])
              IN IF bytes.kind # "Ok" THEN bytes
                 ELSE Ok(both(period_of(in.period[1])[1], bytes.val,
                              max_files_or_default(in.max_files)))
    ELSE Err(<<"unknown rotation type", in.type[1]>>)

deserialize(in) ==
    IF in.form = "Simple" THEN deserialize_simple(in.s)
    ELSE deserialize_complex(in)

\* the documents of the model
TypeNames == {"never", "size", "time", "both", "Size", "daily", ""}

PeriodNames == {"never", "daily", "weekly", "yearly"}

Opt(S) == {<<>>} \cup {<<x>> : x \in S}

InputSizes ==
    {[variant |-> "String", s |-> s] :
       s \in UNION {[1..n -> SizeChars] : n \in 0..(MaxStrLen - 1)}
             \cup LongStrings}
    \cup {[variant |-> "Number", n |-> n] : n \in 0..MaxMagnitude}

RotationInputs ==
    {[form |-> "Simple", s |-> s] : s \in TypeNames}
    \cup [form : {"Complex"}, type : Opt(TypeNames), period : Opt(PeriodNames),
          max_size : Opt(InputSizes), max_files : Opt({0, 3})]

InitDeserialize == trigger = Never /\ InitPlain

\* one call of RotationTrigger::deserialize; ret keeps the input and the
\* result
DeserializeCall ==
    /\ ret.op = "none"
    /\ \E in \in RotationInputs :
         ret' = [op |-> "deserialize", in |-> in, res |-> deserialize(in)]
    /\ UNCHANGED <<dirs, attempt>>
    /\ UNCHANGED <<fs, trigger, alive, state, lock, now, pc, cur, synced,
                   appends, constructs, initFs, log, callers, opened, expect,
                   rotations>>

NextDeserialize == DeserializeCall

SpecDeserialize == InitDeserialize /\ [][NextDeserialize]_vars

-----------------------------------------------------------------------------
(* effective_log_spec (src/src/tracing_init.rs).  A string is the sequence  *)
(* of its characters; the value of an environment variable is a sequence of *)
(* units, each a character or a byte that is no valid Unicode ("0xFF").     *)

InfoLevel == <<"i", "n", "f", "o">>

WarnLevel == <<"w", "a", "r", "n">>

TraceSpec == <<"t", "r", "a", "c", "e">>

DebugSpec == <<"d", "e", "b", "u", "g">>

CrateEq == <<",", "l", "a", "z", "y", "d", "n", "s", "=">>

\* std::env::var: Err(NotPresent), Err(NotUnicode) or Ok(value)
env_var(value) ==
    IF value = <<>> THEN Err(<<"NotPresent">>)
    ELSE IF \E i \in 1..Len(value[1]) : value[1][i] = "0xFF"
    THEN Err(<<"NotUnicode">>)
    ELSE Ok(value[1])

\* the match on the CLI verbosity
verbose_spec(level, verbose) ==
    CASE verbose = 0 -> level
      [] verbose = 1 -> level \o CrateEq \o DebugSpec
      [] verbose = 2 -> level \o CrateEq \o TraceSpec
      [] OTHER       -> TraceSpec

effective_log_spec(rust_log, level, cli_verbose) ==
    IF env_var(rust_log).kind = "Ok" /\ env_var(rust_log).val # <<>>
    THEN env_var(rust_log).val
    ELSE IF cli_verbose # <<>> THEN verbose_spec(level, cli_verbose[1])
    ELSE IF level = <<>> THEN InfoLevel \o CrateEq \o InfoLevel
    ELSE level \o CrateEq \o level

MaxLevelLen == 2   \* characters of a generated level or RUST_LOG value

LevelChars == {"a", ","}

Levels ==
    UNION {[1..n -> LevelChars] : n \in 0..MaxLevelLen}
    \cup {InfoLevel, WarnLevel}

RustLogs ==
    Opt(UNION {[1..n -> LevelChars \cup {"0xFF"}] : n \in 0..MaxLevelLen}
        \cup {TraceSpec, DebugSpec})

\* Option<u8>
Verbosities == Opt(0..255)

InitLogSpec == trigger = Never /\ InitPlain

\* one call of effective_log_spec; ret keeps the inputs and the result
EffectiveLogSpecCall ==
    /\ ret.op = "none"
    /\ \E rust_log \in RustLogs, level \in Levels, cli \in Verbosities :
         ret' = [op |-> "effective_log_spec", rust_log |-> rust_log,
                 level |-> level, cli |-> cli,
                 res |-> effective_log_spec(rust_log, level, cli)]
    /\ UNCHANGED <<dirs, attempt>>
    /\ UNCHANGED <<fs, trigger, alive, state, lock, now, pc, cur, synced,
                   appends, constructs, initFs, log, callers, opened, expect,
                   rotations>>

NextLogSpec == EffectiveLogSpecCall

SpecLogSpec == InitLogSpec /\ [][NextLogSpec]_vars

-----------------------------------------------------------------------------
(* file.metadata().map(|m| m.len()).unwrap_or(0) when the metadata of the   *)
(* file just opened cannot be read: the FileState is built with size 0 and  *)
(* no error is returned.                                                    *)

unwrap_or_zero(res) ==
    [res EXCEPT !.state = <<[res.state[1] EXCEPT !.size = 0]>>]

\* RotatingWriter::new when file.metadata() returns an error
ConstructMetadataFails ==
    /\ ~alive
    /\ constructs < MaxConstructs
    /\ lock = 0
    /\ \E r \in ClockReads(trigger) :
         Constructed(unwrap_or_zero(get_or_rotate(trigger, fs, <<>>, 0, r)),
                     has_size_rotation(trigger), r[4])
    /\ alive' = TRUE
    /\ constructs' = constructs + 1
    /\ synced' = FALSE
    /\ dirs' = create_dir_all(dirs)
    /\ UNCHANGED attempt
    /\ UNCHANGED <<trigger, lock, pc, cur, appends, initFs, log, callers, ret>>

\* get_or_rotate of a write that opens a file whose file.metadata() returns
\* an error
GetOrRotateMetadataFails(t) ==
    /\ pc[t] = "decide"
    /\ lock = t
    /\ \E r \in ClockReads(trigger) :
         /\ state = <<>>
              \/ get_or_rotate(trigger, fs, state, Len(cur[t].buf), r).rotated
         /\ Decided(t, unwrap_or_zero(get_or_rotate(trigger, fs, state,
                                                    Len(cur[t].buf), r)),
                    has_size_rotation(trigger), r[4])
    /\ lock' = 0
    /\ pc' = [pc EXCEPT ![t] = "write"]
    /\ UNCHANGED <<dirs, attempt>>
    /\ UNCHANGED <<trigger, alive, appends, constructs, initFs, log, callers,
                   ret>>

NextMetadata ==
    \/ NextIo
    \/ ConstructMetadataFails
    \/ \E t \in Threads : GetOrRotateMetadataFails(t)

InitMetadata == InitWith({Never, size(1, 3), time("Daily")})

SpecMetadata == InitMetadata /\ [][NextMetadata]_vars

-----------------------------------------------------------------------------
(* A write whose get_or_rotate returns an error, followed by the caller's   *)
(* retry.  attempt keeps, of the failed call, the error, the directory and  *)
(* the Option<FileState> it found, and the length of its buffer.            *)

Attempt(id, fail, at, f, st, buf_len) ==
    [id |-> id, err |-> fail, at |-> at, before |-> f, pre |-> st,
     len |-> buf_len]

\* write when get_or_rotate returns an error (the ? operator returns it)
WriteFails(t) ==
    /\ pc[t] = "decide"
    /\ lock = t
    /\ \E r \in ClockReads(trigger), fail \in Failures(trigger) :
         /\ Failed(get_or_rotate_fails(trigger, fs, state, Len(cur[t].buf), r,
                                       fail), r[4])
         /\ ret' = ReturnedErr("write", cur[t].id, fail,
                               current_file_path(trigger, r[2]))
         /\ attempt' = <<Attempt(cur[t].id, fail,
                                 current_file_path(trigger, r[2]), fs, state,
                                 Len(cur[t].buf))>>
    /\ lock' = 0
    /\ ErrorReturned(t)
    /\ UNCHANGED dirs
    /\ UNCHANGED <<trigger, alive, appends, constructs, initFs, log, callers,
                   rotations>>

NextRetry ==
    \/ Next
    \/ \E t \in Threads : WriteFails(t)

InitRetry == InitWith({size(1, 2)})

SpecRetry == InitRetry /\ [][NextRetry]_vars

TypeOK ==
    /\ lock \in Threads \cup {0}
    /\ now \in 0..MaxNow
    /\ Len(state) <= 1
    /\ ret.op \in {"none", "new", "write", "flush", "needs_rotation", "to_bytes",
                 "deserialize", "effective_log_spec"}

-----------------------------------------------------------------------------
(* Vocabulary of the properties *)

\* p is a numbered backup of the path a
IsBackupOf(p, a) ==
    /\ Len(p) = Len(a) + 1
    /\ SubSeq(p, 1, Len(a)) = a
    /\ Len(p[Len(p)]) = 1

BackupsOf(f, a) == {p \in DOMAIN f : IsBackupOf(p, a)}

\* the active paths of the trigger over the hours of the clock
ActivePaths == {current_file_path(trigger, t) : t \in 0..MaxNow}

\* the files of f that hold a byte of the write call c
FilesOf(f, c) == {p \in DOMAIN f : \E i \in DOMAIN f[p] : CallOf(f[p][i]) = c}

\* the position of the write call c in the log, 0 if it has not completed
LogIndex(c) ==
    IF \E k \in DOMAIN log : log[k].id = c
    THEN CHOOSE k \in DOMAIN log : log[k].id = c ELSE 0

RECURSIVE AllAppended(_)
AllAppended(k) ==
    IF k = 0 THEN <<>> ELSE AllAppended(k - 1) \o BufOf(log[k].id, log[k].len)

Idle == \A t \in Threads : pc[t] = "idle"

-----------------------------------------------------------------------------
(* C1 *)

\* C1: under a Size or Both trigger with max_files = N >= 1, from a directory
\* with no backup numbered above N, every active path has at most N numbered
\* backups and its backup N + 1 never exists.
C1_BackupsBounded ==
    (/\ has_size_rotation(trigger)
     /\ trigger.max_files >= 1
     /\ \A a \in ActivePaths : \A p \in BackupsOf(initFs, a) :
            p[Len(p)][1] \in 1..trigger.max_files)
    => \A a \in ActivePaths :
         /\ Cardinality(BackupsOf(fs, a)) <= trigger.max_files
         /\ ~exists(fs, Suffixed(a, Num(trigger.max_files + 1)))

\* more rotations than max_files have run and the backups are at the limit
C1_Witness ==
    /\ has_size_rotation(trigger)
    /\ trigger.max_files >= 1
    /\ rotations > trigger.max_files
    /\ \E a \in ActivePaths :
         Cardinality(BackupsOf(fs, a)) = trigger.max_files

-----------------------------------------------------------------------------
(* C2 *)

-----------------------------------------------------------------------------
(* C3 *)

\* C3: the bytes of every completed Append lie in one file, whole, contiguous
\* and in order, and the bytes of two Appends in the same file are in the
\* order in which the calls took the lock for their write.
C3_Contiguous ==
    /\ \A k \in DOMAIN log :
         /\ Cardinality(FilesOf(fs, log[k].id)) <= 1
         /\ \A p \in FilesOf(fs, log[k].id) :
              \E off \in 0..Len(fs[p]) :
                /\ off + log[k].len <= Len(fs[p])
                /\ \A i \in DOMAIN fs[p] :
                     CallOf(fs[p][i]) = log[k].id
                     <=> (off < i /\ i <= off + log[k].len)
                /\ SubSeq(fs[p], off + 1, off + log[k].len)
                     = BufOf(log[k].id, log[k].len)
    /\ \A p \in DOMAIN fs : \A i, j \in DOMAIN fs[p] :
         (i < j /\ LogIndex(CallOf(fs[p][i])) > 0
                /\ LogIndex(CallOf(fs[p][j])) > 0)
         => LogIndex(CallOf(fs[p][i])) <= LogIndex(CallOf(fs[p][j]))

\* two Appends of two bytes each, by different threads, lie in one file
C3_Witness ==
    /\ Cardinality(callers) = 2
    /\ \E p \in DOMAIN fs : \E k, l \in DOMAIN log :
         /\ k # l
         /\ log[k].len >= 2 /\ log[l].len >= 2
         /\ p \in FilesOf(fs, log[k].id) \cap FilesOf(fs, log[l].id)

-----------------------------------------------------------------------------
(* C4 *)

\* C4: under a Size trigger an Append rotates, once, exactly when the size in
\* memory plus the length of the buffer exceeds max_size, and the FileState
\* right after the rotation, before the write, has size 0.
C4_RotatesOnCrossing ==
    trigger.kind = "Size" =>
      /\ \A t \in Threads : pc[t] \in {"write", "writing"} =>
           /\ cur[t].rotated
                <=> cur[t].pre[1].size + Len(cur[t].buf) > trigger.max_size
           /\ rotations - cur[t].rots = IF cur[t].rotated THEN 1 ELSE 0
           /\ cur[t].rotated => state[1].size = 0
      /\ \A k \in DOMAIN log : log[k].nrot = IF log[k].rotated THEN 1 ELSE 0

\* an Append on a file that holds bytes has rotated and not yet written
C4_Witness ==
    /\ trigger.kind = "Size"
    /\ \E t \in Threads :
         /\ pc[t] = "write"
         /\ cur[t].rotated
         /\ cur[t].pre[1].size > 0
         /\ cur[t].pre[1].size <= trigger.max_size
         /\ state[1].size = 0

-----------------------------------------------------------------------------
(* C5 *)

\* C5: after a Flush the file behind the handle holds exactly the buffers
\* appended since the last rotation, in order, behind the content that was
\* reused at construction if no rotation has happened since.
C5_RoundTrip ==
    (alive /\ synced /\ state # <<>>)
    => fs[state[1].file]
         = (IF opened.by = "new" THEN opened.held ELSE <<>>) \o expect

\* C5 (amended): after a Flush the file behind the handle holds what it held
\* when the handle was opened followed by the buffers appended through the
\* handle, in order; under a Size trigger a rotation made by an Append opens
\* the handle on an empty file.
C5_RoundTripSinceOpened ==
    /\ (alive /\ synced /\ state # <<>>)
       => fs[state[1].file] = opened.held \o expect
    /\ (trigger.kind = "Size" /\ opened.by = "write")
       => opened.held = <<>>

\* flushed, after an Append has rotated onto a file that held bytes and has
\* written behind them
C5_Witness ==
    /\ alive /\ synced /\ state # <<>>
    /\ opened.by = "write" /\ opened.held # <<>>
    /\ expect # <<>>

-----------------------------------------------------------------------------
(* C6 *)

\* C6: under a trigger with size rotation, a construction that finds a file
\* of at most max_size bytes at the active path leaves the directory as it
\* was: the file is reused, no backup is created or shifted.
C6_ReusesExisting ==
    (/\ has_size_rotation(trigger)
     /\ alive /\ constructs = 1 /\ appends = 0
     /\ exists(initFs, state[1].file)
     /\ Len(initFs[state[1].file]) <= trigger.max_size)
    => /\ fs = initFs
       /\ state[1].size = Len(initFs[state[1].file])

-----------------------------------------------------------------------------
(* C7 *)

\* C7: under a trigger with size rotation, a construction that finds a file
\* of more than max_size bytes at the active path rotates once: the content
\* is at the first backup, the active file is empty and the size is 0.
C7_RotatesOversized ==
    (/\ has_size_rotation(trigger)
     /\ alive /\ constructs = 1 /\ appends = 0
     /\ exists(initFs, state[1].file)
     /\ Len(initFs[state[1].file]) > trigger.max_size)
    => /\ exists(fs, Suffixed(state[1].file, Num(1)))
       /\ fs[Suffixed(state[1].file, Num(1))] = initFs[state[1].file]
       /\ fs[state[1].file] = <<>>
       /\ state[1].size = 0

-----------------------------------------------------------------------------
(* C8 *)

\* C8: a trigger with size rotation and max_files = 0 is rejected when it is
\* built, so no writer ever runs a rotation with max_files = 0.
C8_ZeroMaxFilesRejected ==
    ~(has_size_rotation(trigger) /\ trigger.max_files = 0 /\ rotations > 0)

-----------------------------------------------------------------------------
(* C9 *)

\* C9: under a trigger with size rotation an Append of a buffer longer than
\* max_size rotates first, which leaves an empty file behind the handle, and
\* then writes the whole buffer into that file, which holds nothing else.
C9_OversizedWhole ==
    has_size_rotation(trigger) =>
      /\ \A t \in Threads :
           (pc[t] \in {"write", "writing"}
              /\ Len(cur[t].buf) > trigger.max_size)
           => /\ cur[t].rotated
              /\ state[1].size = 0
              /\ fs[state[1].file] = <<>>
      /\ \A k \in DOMAIN log : log[k].len > trigger.max_size =>
           /\ log[k].rotated
           /\ log[k].written = log[k].len
           /\ \A p \in FilesOf(fs, log[k].id) :
                fs[p] = BufOf(log[k].id, log[k].len)
           /\ (k = Len(log) /\ expect = BufOf(log[k].id, log[k].len))
                => fs[log[k].file] = BufOf(log[k].id, log[k].len)

-----------------------------------------------------------------------------
(* C10 *)

\* C10: under the Never trigger nothing rotates: every file but the base
\* file is as it was found, none is created beside it, and the base file
\* holds what it held followed by every appended buffer in order.
C10_NeverRotates ==
    trigger = Never =>
      /\ rotations = 0
      /\ DOMAIN fs \ {base_path} = DOMAIN initFs \ {base_path}
      /\ \A p \in DOMAIN fs \ {base_path} : fs[p] = initFs[p]
      /\ constructs = 0 => fs = initFs
      /\ constructs > 0 =>
           /\ exists(fs, base_path)
           /\ fs[base_path] =
                (IF exists(initFs, base_path) THEN initFs[base_path] ELSE <<>>)
                \o AllAppended(Len(log))

\* two buffers appended to a base file that held bytes, then flushed
C10_Witness ==
    /\ trigger = Never
    /\ exists(initFs, base_path) /\ initFs[base_path] # <<>>
    /\ Len(log) >= 2
    /\ \A k \in DOMAIN log : log[k].len > 0
    /\ synced

-----------------------------------------------------------------------------
(* C11 *)

\* C11: under a Time trigger with a period other than Never, the bytes of an
\* Append are written to the file base.<label> of a period that contains a
\* moment of that Append (between the call of write and the write itself).
C11_LandsInPeriodFile ==
    (trigger.kind = "Time" /\ trigger.period # "Never") =>
      \A t \in Threads :
        (pc[t] = "writing" /\ state # <<>> /\ cur[t].buf # <<>>) =>
          \E u \in cur[t].t0..now :
            state[1].file = Suffixed(base_path, get_suffix(trigger.period, u))

-----------------------------------------------------------------------------
(* C12 *)

\* one step leaves the bare base file and the numbered backups of the bare
\* base path as they are, and a first backup <a>.1 of an active path a that
\* appears or changes holds what the file a held before the step
BacksUpActiveNotBase ==
    /\ exists(fs', base_path) <=> exists(fs, base_path)
    /\ exists(fs, base_path) => fs'[base_path] = fs[base_path]
    /\ \A p \in DOMAIN fs' :
         IsBackupOf(p, base_path) => (p \in DOMAIN fs /\ fs'[p] = fs[p])
    /\ \A a \in ActivePaths :
         (/\ exists(fs', Suffixed(a, Num(1)))
          /\ (exists(fs, Suffixed(a, Num(1)))
                => fs'[Suffixed(a, Num(1))] # fs[Suffixed(a, Num(1))]))
         => (exists(fs, a) /\ fs'[Suffixed(a, Num(1))] = fs[a])

-----------------------------------------------------------------------------
(* C13 *)

\* this step is a call of rotate: by get_or_rotate inside write, or by the
\* get_or_rotate(0) of RotatingWriter::new
RotateStep ==
    \/ \E t \in Threads :
         pc[t] = "decide" /\ pc'[t] = "write" /\ cur'[t].rotated
    \/ ~alive /\ alive' /\ ~should_use_existing_file(trigger, fs)

\* C13: for every trigger, needs_rotation on the FileState that a rotation
\* has just returned, with a buffer length of 0 and the clock in the period
\* it was in when the rotation began, is false.
C13_FreshStateNeedsNoRotation ==
    [][(/\ RotateStep
        /\ current_time_suffix(trigger, now') = current_time_suffix(trigger, now))
       => ~needs_rotation(trigger, state'[1], 0, now')]_vars

\* an Append under a Time trigger has just rotated, the clock not having
\* moved since the call of write
C13_Witness ==
    /\ trigger.kind = "Time" /\ trigger.period # "Never"
    /\ \E t \in Threads :
         /\ pc[t] = "write"
         /\ cur[t].rotated
         /\ cur[t].t0 = now
         /\ cur[t].pre # <<>>
         /\ cur[t].pre[1].time_suffix # state[1].time_suffix

-----------------------------------------------------------------------------
(* C14 *)

\* this step is the return of a flush call
FlushStep == ret'.op = "flush" /\ (ret' # ret \/ (synced' /\ ~synced))

\* C14: a Flush does not rotate and leaves the FileState and the files as
\* they are, whether or not a rotation condition holds; with no file open
\* it returns Ok and does nothing.
C14_FlushChangesNothing ==
    [][FlushStep =>
         /\ UNCHANGED <<fs, state, rotations, opened, expect, now, lock>>
         /\ state = <<>> => (ret'.ok /\ UNCHANGED synced)]_vars

\* a flush has returned while the file behind the handle was above max_size
C14_Witness ==
    /\ has_size_rotation(trigger)
    /\ ret.op = "flush" /\ synced
    /\ state # <<>>
    /\ needs_rotation(trigger, state[1], 0, now)
    /\ state[1].size > trigger.max_size

-----------------------------------------------------------------------------
(* C15 *)

\* this step is a rotation that stops at the failure of the removal of the
\* oldest backup or of a rename of the shift
FailsBeforeCopy ==
    /\ ret' # ret
    /\ ~ret'.ok
    /\ ret'.err # <<>>
    /\ ret'.err[1] \in {"remove_file", "rename"}

\* the renames made before the failing one stay: current.j is at current.(j+1)
RenamesStay ==
    ret'.err[1] = "rename" =>
      /\ exists(fs', Suffixed(ret'.at, Num(ret'.err[2])))
      /\ \A j \in (ret'.err[2] + 1)..(MaxFilesOrDefault(trigger) - 1) :
           exists(fs, Suffixed(ret'.at, Num(j))) =>
             /\ exists(fs', Suffixed(ret'.at, Num(j + 1)))
             /\ fs'[Suffixed(ret'.at, Num(j + 1))] = fs[Suffixed(ret'.at, Num(j))]
             /\ fs'[Suffixed(ret'.at, Num(ret'.err[2]))]
                  = fs[Suffixed(ret'.at, Num(ret'.err[2]))]

\* C15: when the removal of the oldest backup or a rename of the shift
\* fails, every active file holds after the failed rotation the content it
\* held before it, and the renames already made are not undone.
C15_ActiveKeptOnEarlyFailure ==
    [][FailsBeforeCopy =>
         /\ \A a \in ActivePaths :
              exists(fs, a) => (exists(fs', a) /\ fs'[a] = fs[a])
         /\ state # <<>> =>
              (exists(fs', state[1].file)
                 /\ fs'[state[1].file] = fs[state[1].file])
         /\ RenamesStay]_vars

\* a rotation has failed at the rename of current.1 after current.2 was
\* renamed to current.3, and the active file still has content
C15_Witness ==
    /\ ~ret.ok
    /\ ret.err = <<"rename", 1>>
    /\ exists(fs, Suffixed(ret.at, Num(3)))
    /\ ~exists(fs, Suffixed(ret.at, Num(2)))
    /\ exists(fs, Suffixed(ret.at, Num(1)))
    /\ exists(fs, ret.at) /\ fs[ret.at] # <<>>

-----------------------------------------------------------------------------
(* C16 *)

\* the last call to return was a write that returned an I/O error
WriteFailed(r) == r.op = "write" /\ ~r.ok

\* C16: a write whose rotation or open fails returns the error at once: the
\* call is over, none of its bytes is in any file then or later, and no
\* rotation is counted; the next write is a new call that starts from the
\* lock with no file open.
C16_FailedAppendWritesNothing ==
    [][/\ (ret' # ret /\ WriteFailed(ret')) =>
            /\ \A t \in Threads : pc'[t] = "idle"
            /\ lock' = 0
            /\ state' = <<>>
            /\ rotations' = rotations
            /\ log' = log
       /\ WriteFailed(ret') => FilesOf(fs', ret'.id) = {}
       /\ (WriteFailed(ret) /\ ret' # ret /\ ret'.op = "write") =>
            ret'.id > ret.id]_vars

\* a write has failed after its rotation had backed up the active file, and
\* the following write has completed with its bytes on disk
C16_Witness ==
    /\ ret = Returned("write", 2, TRUE)
    /\ LogIndex(1) = 0
    /\ FilesOf(fs, 1) = {}
    /\ FilesOf(fs, 2) # {}
    /\ \E a \in ActivePaths : exists(fs, Suffixed(a, Num(1)))

-----------------------------------------------------------------------------
(* C17 *)

\* the five lines of the test have been written
FiveLines == alive /\ appends = ScenarioLines

\* C17 (as stated): after the five lines test.log and test.log.1 exist and
\* test.log.2 and test.log.3 do not.
C17_OneBackupAfterFive ==
    FiveLines =>
      /\ exists(fs, base_path)
      /\ exists(fs, Suffixed(base_path, Num(1)))
      /\ ~exists(fs, Suffixed(base_path, Num(2)))
      /\ ~exists(fs, Suffixed(base_path, Num(3)))

\* C17 (amended): with max_size 50 two lines of 17 to 25 bytes fit and a
\* third does not, so the third and the fifth line rotate: after the five
\* lines test.log, test.log.1 and test.log.2 exist, test.log.3 does not,
\* test.log holds the fifth line and the backups hold two lines each.
C17_TwoBackupsAfterFive ==
    FiveLines =>
      /\ exists(fs, base_path)
      /\ exists(fs, Suffixed(base_path, Num(1)))
      /\ exists(fs, Suffixed(base_path, Num(2)))
      /\ ~exists(fs, Suffixed(base_path, Num(3)))
      /\ \A k \in 1..ScenarioLines : log[k].rotated <=> k \in {3, 5}
      /\ fs[base_path] = BufOf(5, log[5].len)
      /\ fs[Suffixed(base_path, Num(1))]
           = BufOf(3, log[3].len) \o BufOf(4, log[4].len)
      /\ fs[Suffixed(base_path, Num(2))]
           = BufOf(1, log[1].len) \o BufOf(2, log[2].len)

\* five lines of exactly 20 bytes have been written and flushed
C17_Witness ==
    /\ FiveLines
    /\ \A k \in 1..ScenarioLines : log[k].len = 20
    /\ ret.op = "flush"
    /\ exists(fs, Suffixed(base_path, Num(2)))

-----------------------------------------------------------------------------
(* C18 *)

\* C18: the value needs_rotation returns is the value of the reference table
\* for the same policy, FileState, buffer length and clock: Never: false;
\* Time: the period is not Never and the current label differs from
\* time_suffix; Size: size + len > max_size; Both: either of the two.
C18_MatchesReferenceTable ==
    LET st        == state[1]
        len       == Len(cur[1].buf)
        TimeCheck == /\ trigger.period # "Never"
                     /\ get_suffix(trigger.period, now) # st.time_suffix
        SizeCheck == st.size + len > trigger.max_size
    IN ret.op = "needs_rotation" =>
         ret.ok = CASE trigger.kind = "Never" -> FALSE
                    [] trigger.kind = "Time"  -> TimeCheck
                    [] trigger.kind = "Size"  -> SizeCheck
                    [] trigger.kind = "Both"  -> TimeCheck \/ SizeCheck

\* needs_rotation has returned true for Both on the size check alone, the
\* label being the current one and size + len exactly one above max_size
C18_Witness ==
    /\ ret = Returned("needs_rotation", 0, TRUE)
    /\ trigger.kind = "Both" /\ trigger.period # "Never"
    /\ state[1].time_suffix = get_suffix(trigger.period, now)
    /\ state[1].size + Len(cur[1].buf) = trigger.max_size + 1

-----------------------------------------------------------------------------
(* C19 *)

\* this step contains a rotate_by_size that returned Ok
SizeRotationStep == rotations' = rotations + 1

\* the backups of the path a after the step, against the files before it
BackupsAged(a) ==
    /\ exists(fs, a) =>
         /\ exists(fs', Suffixed(a, Num(1)))
         /\ fs'[Suffixed(a, Num(1))] = fs[a]
    /\ \A i \in 1..(MaxFilesOrDefault(trigger) - 1) :
         exists(fs, Suffixed(a, Num(i))) =>
           /\ exists(fs', Suffixed(a, Num(i + 1)))
           /\ fs'[Suffixed(a, Num(i + 1))] = fs[Suffixed(a, Num(i))]

\* C19: a rotation by size leaves in <active>.1 the content the active file
\* had before it, and in <active>.(i+1) the content <active>.i had before
\* it, for every i from 1 to max_files - 1; the active path is the one of
\* the clock during the rotation.
C19_BackupsOrderedByAge ==
    [][SizeRotationStep =>
         \E u \in now..now' : BackupsAged(current_file_path(trigger, u))]_vars

\* two rotations have aged the backup found at construction to .3; .2 holds
\* the file found at construction and .1 the bytes of an Append
C19_Witness ==
    /\ trigger.kind = "Size" /\ trigger.max_files = 3
    /\ rotations = 2
    /\ exists(fs, Suffixed(base_path, Num(3)))
    /\ fs[Suffixed(base_path, Num(3))] = <<4>>
    /\ exists(fs, Suffixed(base_path, Num(2)))
    /\ fs[Suffixed(base_path, Num(2))] = Long
    /\ exists(fs, Suffixed(base_path, Num(1)))
    /\ \E i \in DOMAIN fs[Suffixed(base_path, Num(1))] :
         CallOf(fs[Suffixed(base_path, Num(1))][i]) > 0

-----------------------------------------------------------------------------
(* C20 *)

PeriodNever == trigger.kind \in {"Time", "Both"} /\ trigger.period = "Never"

\* at every hour the label is empty and the active path is the base path;
\* the FileState carries them; needs_rotation is the size check alone
NoTimeBucket ==
    /\ \A u \in 0..MaxNow :
         /\ current_time_suffix(trigger, u) = <<>>
         /\ current_file_path(trigger, u) = base_path
    /\ state # <<>> =>
         /\ state[1].file = base_path
         /\ state[1].time_suffix = <<>>
         /\ \A u \in 0..MaxNow, n \in 0..MaxBufLen :
              needs_rotation(trigger, state[1], n, u)
                = (/\ trigger.kind = "Both"
                   /\ state[1].size + n > trigger.max_size)

\* no call returns an error, and the only files beside those found are the
\* base file and its numbered backups
NoErrorNoLabelledFile ==
    /\ ret.ok
    /\ alive => state # <<>>
    /\ \A p \in DOMAIN fs \ DOMAIN initFs :
         p = base_path \/ IsBackupOf(p, base_path)

\* under Time{Never} the base file only grows by the appended buffers
OnlyAppends ==
    trigger.kind = "Time" =>
      /\ DOMAIN fs \ {base_path} = DOMAIN initFs \ {base_path}
      /\ \A p \in DOMAIN fs \ {base_path} : fs[p] = initFs[p]
      /\ constructs > 0 =>
           /\ exists(fs, base_path)
           /\ fs[base_path] =
                (IF exists(initFs, base_path) THEN initFs[base_path] ELSE <<>>)
                \o AllAppended(Len(log))

\* a write that rotates does so on the size check
RotatesOnSizeOnly ==
    \A t \in Threads :
      (pc[t] = "decide" /\ pc'[t] = "write" /\ cur'[t].rotated /\ state # <<>>)
        => (/\ trigger.kind = "Both"
            /\ state[1].size + Len(cur[t].buf) > trigger.max_size)

\* C20: a Time or Both trigger whose period is Never never rotates by time
\* and returns no error: the label is empty and the active path is the base
\* path at every hour, needs_rotation is false (Time) or the size check
\* (Both), and the clock passing a period boundary changes nothing.
C20_PeriodNeverNoTimeRotation ==
    /\ [](PeriodNever => (NoTimeBucket /\ NoErrorNoLabelledFile /\ OnlyAppends))
    /\ [][PeriodNever => RotatesOnSizeOnly]_vars

\* a write decided not to rotate on a file opened before the hour, the day,
\* the week and the month changed
C20_Witness ==
    /\ PeriodNever
    /\ \E t \in Threads :
         /\ pc[t] = "write"
         /\ cur[t].buf # <<>>
         /\ cur[t].pre # <<>>
         /\ ~cur[t].rotated
         /\ cur[t].t0 < now
         /\ state[1].file = base_path

-----------------------------------------------------------------------------
(* C21 *)

\* the local day that contains the instant u
LocalDay(u) == now_local(u) \div 24

\* the period instance that contains the instant u: the hour itself, the
\* local day, the local week (by its Monday), the local month
PeriodInstance(period, u) ==
    CASE period = "Hourly"  -> <<u>>
      [] period = "Daily"   -> <<LocalDay(u)>>
      [] period = "Weekly"  ->
           <<LocalDay(u) - number_days_from_monday(LocalDay(u))>>
      [] period = "Monthly" -> <<MonthOf(LocalDay(u))>>

\* C21: two calls of get_suffix that both read the local time return the
\* same label if and only if their instants are in the same hour (Hourly),
\* local day (Daily), local week (Weekly) or local month (Monthly).
C21_LabelOfPeriodInstance ==
    (Len(log) = 2 /\ log[1].local /\ log[2].local) =>
      ((log[1].suffix = log[2].suffix)
         <=> (PeriodInstance(trigger.period, log[1].at)
                = PeriodInstance(trigger.period, log[2].at)))

-----------------------------------------------------------------------------
(* C22 *)

\* the u64 holding v * 65536^off, for v below 2^31
Placed(v, off) ==
    IF off = 0 THEN <<v % Limb, v \div Limb, 0, 0>>
    ELSE <<0, v % Limb, v \div Limb, 0>>

\* n * 1024^k for n below 2^17: 1024^2 = 16 * 65536, 1024^3 = 16384 * 65536
Times1024(n, k) ==
    CASE k = 1 -> Placed(n * 1024, 0)
      [] k = 2 -> Placed(n * 16, 1)
      [] k = 3 -> Placed(n * 16384, 1)

\* the power of 1024 that the claim gives to a unit letter
PowerOf(u) ==
    CASE u \in {"k", "K"} -> 1
      [] u \in {"m", "M"} -> 2
      [] u \in {"g", "G"} -> 3

\* C22: a number n and the string of its decimal digits give n * 1024; the
\* digits followed by K, M or G in either case give n * 1024, n * 1024^2
\* and n * 1024^3.
C22_SizeInBytes ==
    ret.op = "to_bytes" =>
      /\ ret.v.variant = "Number" => ret.res = Ok(Times1024(ret.v.n, 1))
      /\ ret.v.variant = "String" =>
           \A n \in 0..MaxMagnitude :
             /\ ret.v.s = to_string(n) => ret.res = Ok(Times1024(n, 1))
             /\ \A u \in {"k", "K", "m", "M", "g", "G"} :
                  ret.v.s = Append(to_string(n), u)
                    => ret.res = Ok(Times1024(n, PowerOf(u)))

\* "15g" was parsed to 15 * 1024^3
C22_Witness ==
    /\ ret.op = "to_bytes"
    /\ ret.v = [variant |-> "String", s |-> <<"1", "5", "g">>]
    /\ ret.res = Ok(<<0, 49152, 3, 0>>)

-----------------------------------------------------------------------------
(* C23 *)

\* s without the white space around it is empty
EmptyInput(s) == \A i \in DOMAIN s : s[i] = " "

\* the last character of s is a letter
EndsWithLetter(s) == s # <<>> /\ s[Len(s)] \in Letters

\* s ends with a letter that is none of K, M, G in either case
BadUnit(s) ==
    EndsWithLetter(s) /\ s[Len(s)] \notin {"k", "K", "m", "M", "g", "G"}

\* s without its unit letter
Magnitude(s) == IF EndsWithLetter(s) THEN SubSeq(s, 1, Len(s) - 1) ELSE s

\* the magnitude is empty or has a character that is no digit and no sign
NonNumeric(s) ==
    \/ Magnitude(s) = <<>>
    \/ \E i \in DOMAIN Magnitude(s) :
         ~is_ascii_digit(Magnitude(s)[i]) /\ Magnitude(s)[i] # "+"

\* the strings of the model whose product needs more than 64 bits
TooLarge ==
    {<<"1", "8", "0", "1", "4", "3", "9", "8", "5", "0", "9", "4", "8", "1", "9", "8", "4", "K">>,
     <<"1", "7", "5", "9", "2", "1", "8", "6", "0", "4", "4", "4", "1", "6", "m">>,
     <<"1", "7", "1", "7", "9", "8", "6", "9", "1", "8", "4", "g">>,
     <<"1", "8", "4", "4", "6", "7", "4", "4", "0", "7", "3", "7", "0", "9", "5", "5", "1", "6", "1", "5">>,
     <<"1", "8", "4", "4", "6", "7", "4", "4", "0", "7", "3", "7", "0", "9", "5", "5", "1", "6", "1", "6">>,
     <<"1", "8", "4", "4", "6", "7", "4", "4", "0", "7", "3", "7", "0", "9", "5", "5", "1", "6", "1", "5", "X">>}

\* C23: to_bytes returns Err for a string that, without the white space
\* around it, is empty, has a non-numeric magnitude, ends with a letter other
\* than K, M, G, or denotes a product above 64 bits; the Err for "5X" is
\* invalid unit: X.
C23_MalformedGivesError ==
    (ret.op = "to_bytes" /\ ret.v.variant = "String") =>
      /\ (\/ EmptyInput(ret.v.s)
          \/ BadUnit(trim(ret.v.s))
          \/ NonNumeric(trim(ret.v.s))
          \/ ret.v.s \in TooLarge) => ret.res.kind = "Err"
      /\ ret.v.s = <<"5", "X">> => ret.res = Err(<<"invalid unit", "X">>)

-----------------------------------------------------------------------------
(* C24 *)

\* this step is the return of RotatingWriter::new
ConstructReturns == constructs' = constructs + 1

\* C24: a call of new that returns a writer has made every missing parent
\* directory and leaves a FileState whose handle is open on an existing
\* file; a call in which create_dir_all or the first open (or any other
\* file operation) fails returns the error and no writer.
C24_ConstructOrError ==
    [][ConstructReturns =>
         IF alive'
         THEN /\ dirs'.made = dirs'.depth
              /\ state' # <<>>
              /\ exists(fs', state'[1].file)
              /\ ret' = ret
         ELSE /\ ret'.op = "new" /\ ~ret'.ok /\ ret'.err # <<>>
              /\ state' = <<>>
              /\ ret'.err = <<"create_dir_all">> => fs' = fs]_vars

\* a writer was made on a base path none of whose parent directories
\* existed, and has written
C24_Witness ==
    /\ alive
    /\ dirs.depth = ParentDepth /\ dirs.found = 0 /\ dirs.made = ParentDepth
    /\ state # <<>>
    /\ fs[base_path] # <<>>

-----------------------------------------------------------------------------
(* C25 *)

\* the input names a type that uses the field max_size
SizedType(in) == in.type \in {<<"size">>, <<"both">>}

\* the input names a type that uses the field period
TimedType(in) == in.type \in {<<"time">>, <<"both">>}

\* C25: the four shorthand strings give Never, Size{10 MiB, 5}, Time{Daily}
\* and Both{Daily, 10 MiB, 5}; in the structured form a missing type gives
\* Never, a missing max_files gives 5, and a missing period (time, both), a
\* missing or unparsable max_size (size, both) or an unknown type gives Err.
C25_DeserializeTrigger ==
    ret.op = "deserialize" =>
      IF ret.in.form = "Simple"
      THEN /\ ret.in.s = "never" => ret.res = Ok(Never)
           /\ ret.in.s = "size" => ret.res = Ok(size(<<0, 160, 0, 0>>, 5))
           /\ ret.in.s = "time" => ret.res = Ok(time("Daily"))
           /\ ret.in.s = "both"
                => ret.res = Ok(both("Daily", <<0, 160, 0, 0>>, 5))
      ELSE /\ (ret.in.type = <<>> /\ ret.res.kind # "Err")
                => ret.res = Ok(Never)
           /\ (SizedType(ret.in) /\ ret.res.kind = "Ok"
                 /\ ret.in.max_files = <<>>) => ret.res.val.max_files = 5
           /\ (TimedType(ret.in) /\ ret.in.period = <<>>)
                => ret.res.kind = "Err"
           /\ (SizedType(ret.in) /\ ret.in.max_size = <<>>)
                => ret.res.kind = "Err"
           /\ (SizedType(ret.in) /\ ret.in.max_size # <<>>
                 /\ to_bytes(ret.in.max_size[1]).kind # "Ok")
                => ret.res.kind = "Err"
           /\ (ret.in.type # <<>>
                 /\ ret.in.type[1] \notin {"never", "size", "time", "both"})
                => ret.res.kind = "Err"

-----------------------------------------------------------------------------
(* C26 *)

\* RUST_LOG is set to a value that is not empty
RustLogNonEmpty == ret.rust_log # <<>> /\ ret.rust_log[1] # <<>>

\* C26: strict precedence: a non-empty RUST_LOG is returned unchanged;
\* otherwise a CLI verbosity v gives level (0), level,lazydns=debug (1),
\* level,lazydns=trace (2), trace (3 and more); otherwise
\* level,lazydns=level, or info,lazydns=info when the level is empty.
C26_EffectiveLogSpec ==
    ret.op = "effective_log_spec" =>
      IF RustLogNonEmpty THEN ret.res = ret.rust_log[1]
      ELSE IF ret.cli # <<>>
      THEN /\ ret.cli[1] = 0 => ret.res = ret.level
           /\ ret.cli[1] = 1
                => ret.res = ret.level \o <<",", "l", "a", "z", "y", "d", "n",
                                            "s", "=", "d", "e", "b", "u", "g">>
           /\ ret.cli[1] = 2
                => ret.res = ret.level \o <<",", "l", "a", "z", "y", "d", "n",
                                            "s", "=", "t", "r", "a", "c", "e">>
           /\ ret.cli[1] >= 3 => ret.res = <<"t", "r", "a", "c", "e">>
      ELSE IF ret.level = <<>>
      THEN ret.res = <<"i", "n", "f", "o", ",", "l", "a", "z", "y", "d", "n",
                       "s", "=", "i", "n", "f", "o">>
      ELSE ret.res = ret.level \o <<",", "l", "a", "z", "y", "d", "n", "s",
                                    "=">> \o ret.level

-----------------------------------------------------------------------------
(* C27 *)

\* C27: whenever a FileState is open, its size is the length of the file
\* the handle is open on.
C27_SizeIsFileLength ==
    state # <<>> =>
      /\ exists(fs, state[1].file)
      /\ state[1].size = Len(fs[state[1].file])

-----------------------------------------------------------------------------
(* C28 *)

\* C28: whenever a FileState is open, its handle is open on the path of its
\* stored time bucket: the base path when time_suffix is empty, otherwise
\* base.<time_suffix>.
C28_HandleOnBucketPath ==
    state # <<>> =>
      state[1].file = IF state[1].time_suffix = <<>> THEN base_path
                      ELSE Suffixed(base_path, state[1].time_suffix)

-----------------------------------------------------------------------------
(* C29 *)

\* the active file holds exactly the buffer of one completed write call
OneBufferOnly ==
    \E k \in DOMAIN log :
      /\ log[k].len > 0
      /\ fs[state[1].file] = BufOf(log[k].id, log[k].len)

\* C29: under a Size or Both trigger, whenever a FileState is open, either
\* its size is at most max_size or the active file holds exactly one
\* appended buffer, written into an empty file.
C29_SizeWithinLimit ==
    (has_size_rotation(trigger) /\ state # <<>>) =>
      \/ state[1].size <= trigger.max_size
      \/ OneBufferOnly

-----------------------------------------------------------------------------
(* C30 *)

\* the highest number of a backup of the path a in f, 0 if there is none
HighestBackup(f, a) ==
    IF BackupsOf(f, a) = {} THEN 0
    ELSE CHOOSE n \in {p[Len(p)][1] : p \in BackupsOf(f, a)} :
           \A p \in BackupsOf(f, a) : p[Len(p)][1] <= n

\* the backups a.n, ..., a.1 of f that exist, one behind the other
RECURSIVE BackupsFrom(_, _, _)
BackupsFrom(f, a, n) ==
    IF n = 0 THEN <<>>
    ELSE (IF exists(f, Suffixed(a, Num(n))) THEN f[Suffixed(a, Num(n))]
          ELSE <<>>) \o BackupsFrom(f, a, n - 1)

\* the backups from the highest down to 1, then the active file
KeptBytes(f, a) ==
    BackupsFrom(f, a, HighestBackup(f, a))
      \o (IF exists(f, a) THEN f[a] ELSE <<>>)

\* every byte that was ever in the log: what the first construction found,
\* then the appended buffers in the order of their writes
LogStream == KeptBytes(initFs, base_path) \o AllAppended(Len(log))

IsSuffixOf(s, t) ==
    /\ Len(s) <= Len(t)
    /\ SubSeq(t, Len(t) - Len(s) + 1, Len(t)) = s

\* C30: under a Size trigger with max_files >= 1, the backups from the
\* highest down to 1 followed by the active file are a suffix of the stream
\* of all bytes ever in the log: bytes are lost only from the old end, never
\* duplicated or reordered.
C30_KeptIsSuffixOfStream ==
    (trigger.kind = "Size" /\ trigger.max_files >= 1)
    => IsSuffixOf(KeptBytes(fs, base_path), LogStream)

\* the oldest bytes were deleted with a backup; the first backup and the
\* active file hold appended bytes
C30_Witness ==
    /\ trigger.kind = "Size" /\ trigger.max_files >= 1
    /\ Len(KeptBytes(fs, base_path)) < Len(LogStream)
    /\ exists(fs, Suffixed(base_path, Num(1)))
    /\ \E i \in DOMAIN fs[Suffixed(base_path, Num(1))] :
         CallOf(fs[Suffixed(base_path, Num(1))][i]) > 0
    /\ exists(fs, base_path)
    /\ fs[base_path] # <<>>

-----------------------------------------------------------------------------
(* C31 *)

\* the last Append that returned an error did so in its rotation, and the
\* next Append, with a buffer of the same length, has written
RetriedAfterFailedRotation ==
    /\ attempt # <<>>
    /\ attempt[1].pre # <<>>
    /\ appends = attempt[1].id + 1
    /\ \E k \in DOMAIN log :
         /\ log[k].id = attempt[1].id + 1
         /\ log[k].len = attempt[1].len

\* no byte is at two places of the directory f
NoByteTwice(f) ==
    \A p, q \in DOMAIN f : \A i \in DOMAIN f[p], j \in DOMAIN f[q] :
      f[p][i] = f[q][j] => (p = q /\ i = j)

\* C31: after an Append that failed in its rotation and a retry that
\* succeeded, every backup the first attempt found below suffix max_files
\* still has its content among the backups, and no content is on disk twice.
C31_RetryLosesOneBackupAtMost ==
    (trigger.kind = "Size" /\ trigger.max_files >= 1
       /\ RetriedAfterFailedRotation)
    => /\ \A i \in 1..(trigger.max_files - 1) :
            exists(attempt[1].before, Suffixed(attempt[1].at, Num(i)))
            => \E p \in BackupsOf(fs, attempt[1].at) :
                 fs[p] = attempt[1].before[Suffixed(attempt[1].at, Num(i))]
       /\ NoByteTwice(fs)

-----------------------------------------------------------------------------
(* C32 *)

\* the active paths of the buckets before the one stored in the FileState
EarlierBucketPaths ==
    {current_file_path(trigger, u) : u \in
       {u \in 0..MaxNow :
          /\ get_suffix(trigger.period, u) # state[1].time_suffix
          /\ \E v \in (u + 1)..MaxNow :
               get_suffix(trigger.period, v) = state[1].time_suffix}}

\* one step leaves the file p as it is
FileUntouched(p) ==
    /\ exists(fs', p) <=> exists(fs, p)
    /\ exists(fs, p) => fs'[p] = fs[p]

\* one step leaves the file a and its numbered backups as they are
BucketUntouched(a) ==
    /\ FileUntouched(a)
    /\ BackupsOf(fs', a) = BackupsOf(fs, a)
    /\ \A p \in BackupsOf(fs, a) : fs'[p] = fs[p]

\* one step removes no file and keeps what every file holds at its head
NothingCutOrRemoved ==
    \A p \in DOMAIN fs :
      /\ exists(fs', p)
      /\ Len(fs'[p]) >= Len(fs[p])
      /\ SubSeq(fs'[p], 1, Len(fs[p])) = fs[p]

\* C32: under Time and Both, once the stored time bucket is a later one, no
\* step changes, truncates, renames or deletes the active file or a numbered
\* backup of an earlier bucket; under Time no step deletes, renames or
\* truncates any file.
C32_EarlierBucketsKept ==
    [][/\ (trigger.kind \in {"Time", "Both"} /\ trigger.period # "Never"
             /\ state # <<>>)
          => \A a \in EarlierBucketPaths : BucketUntouched(a)
       /\ trigger.kind = "Time" => NothingCutOrRemoved]_vars

====
